---- MODULE Spec2Model ----
(***************************************************************************)
(* A model of the DP-PVI logistic-regression experiment driver             *)
(* (notebooks/examples/dp_logistic_regression.py) and of its helpers       *)
(* (notebooks/examples/utils.py).                                          *)
(*                                                                         *)
(* Spec         one run of main(): argument checks, seeding, client split, *)
(*              set_up_clients, server construction, the training loop.    *)
(* SpecServers  a sequential and a synchronous server built by main from   *)
(*              the same arguments and ticked side by side.                *)
(* SpecPart     generate_clients_data applied to bounded inputs.           *)
(* SpecTwice    generate_clients_data called twice with the same           *)
(*              arguments, the generator state free between the calls.     *)
(* SpecSigma    bin_search_sigma on a grid of noise levels, the privacy    *)
(*              accountant an arbitrary function of the noise level.       *)
(* SpecClip     the clipping of a DP client's update to the norm dp_C.     *)
(* SpecSwap     init_clients_from_existing applied to the clients of a     *)
(*              running server.                                            *)
(*                                                                         *)
(* The pvi package (servers, clients, distributions) is not part of the    *)
(* examples directory; its behaviour is taken from the design document and *)
(* kept in the definitions marked "pvi package".                           *)
(***************************************************************************)
EXTENDS Integers, Sequences, FiniteSets, TLC

\* ---------------------------------------------------------------- bounds
MaxRounds == 2        \* largest args.n_global_updates explored
MaxShards == 2        \* largest args.clients explored
MaxCalls  == 3        \* tick() calls made on each server of SpecServers
MaxN      == 5        \* largest training-set size handed to generate_clients_data
MaxM      == 4        \* largest client count handed to generate_clients_data
MaxRows   == 3        \* largest training-set size of SpecTwice
MaxIters  == 3        \* largest max_iters handed to bin_search_sigma
MaxEps    == 4        \* largest epsilon, in units of the tolerance grid
MaxCoord  == 4        \* largest coordinate of a gradient or parameter change
MaxC      == 3        \* largest clip threshold dp_C

None == "None"

NoError == [kind |-> None, at |-> None]

Error(kind, at) == [kind |-> kind, at |-> at]

\* ------------------------------------------------- natural parameters
\* A mean-field Gaussian over one coordinate.  Natural parameters are kept
\* in units of 1/2 so that np2 = -1/(2 scale^2) of the unit prior is the
\* integer -1.
NatAdd(a, b) == [np1 |-> a.np1 + b.np1, np2 |-> a.np2 + b.np2]

NatSub(a, b) == [np1 |-> a.np1 - b.np1, np2 |-> a.np2 - b.np2]

NatZero == [np1 |-> 0, np2 |-> 0]

\* pvi package: MeanFieldGaussianDistribution._nat_from_std,
\* np1 = loc/scale^2, np2 = -1/(2 scale^2), in units of 1/2.
nat_from_std(std) ==
    [np1 |-> (2 * std.loc) \div (std.scale * std.scale),
     np2 |-> -(1 \div (std.scale * std.scale))]

\* main: prior_std_params, loc = zeros, scale = ones.
prior_std_params == [loc |-> 0, scale |-> 1]

\* a variant that starts every factor at the prior's parameters
init_nat_params_prior == [np1 |-> 0, np2 |-> -1]

\* main: init_nat_params, np1 = zeros, np2 = zeros.
init_nat_params == [np1 |-> 0, np2 |-> 0]

RECURSIVE SumFactors(_)
\* the sum of the client factors' natural parameters
SumFactors(cs) ==
    IF cs = <<>> THEN NatZero
    ELSE NatAdd(Head(cs).t, SumFactors(Tail(cs)))

\* ------------------------------------------------------ argument domains
\* main, line 60: the dp_mode values the first check lets through.
AcceptedDpModes ==
    {"nondp_batches", "nondp_epochs", "dpsgd", "param", "param_fixed",
     "server", "lfa", "local_pvi"}

\* the argparse help of --dp_mode: the modes the driver documents.
DocumentedDpModes ==
    {"nondp_epochs", "nondp_batches", "dpsgd", "param", "param_fixed",
     "lfa", "local_pvi"}

DpSensitiveModes == {"dpsgd", "param", "param_fixed", "lfa", "local_pvi"}

\* main, line 63.
AcceptedModels == {"pvi", "bcm_split", "bcm_same", "global_vi"}

DpModeInputs == AcceptedDpModes \cup {"mixed_dpsgd"}

ModelInputs == AcceptedModels \cup {"vi"}

ServerInputs == {"sequential", "synchronous", "asynchronous"}

ArgsInputs ==
    [dp_mode : DpModeInputs, model : ModelInputs, server : ServerInputs,
     batch_size : {None, "int"}, sampling_frac_q : {None, "float"},
     n_global_updates : 0..MaxRounds, clients : 0..MaxShards]

VARIABLES
    args,          \* main: the parsed arguments
    pc,            \* main: the position of the run
    err,           \* the exception that ended the run, NoError while it runs
    seeded,        \* main: the random generators have been seeded
    returned,      \* the calls of main that have returned normally
    client_data,   \* main: the shards returned by standard_client_split
    constructed,   \* the client objects constructed so far, kept or not
    clients,       \* main: the client list returned by set_up_clients
    server,        \* main: the server, NoServer before it is constructed
    n_ticks,       \* the server.tick() calls main has made
    i_global       \* main: the round index of the training loop

driver_vars ==
    <<args, pc, err, seeded, returned, client_data, constructed, clients,
      server, n_ticks, i_global>>

\* ------------------------------------------------------- main: the checks
BothSet(a) == a.batch_size # None /\ a.sampling_frac_q # None

NeitherSet(a) == a.batch_size = None /\ a.sampling_frac_q = None

\* a variant whose final else branch does not raise
check_args_no_final_raise(a) ==
    IF a.dp_mode \notin AcceptedDpModes
    THEN Error("ValueError", "check_args")
    ELSE IF a.model \notin AcceptedModels
    THEN Error("ValueError", "check_args")
    ELSE IF a.dp_mode \in {"dpsgd", "param_fixed"}
    THEN IF NeitherSet(a) THEN Error("ValueError", "check_args") ELSE NoError
    ELSE IF a.dp_mode \in {"lfa", "local_pvi", "param"}
    THEN IF BothSet(a) THEN Error("ValueError", "check_args") ELSE NoError
    ELSE NoError

\* a variant whose lfa / local_pvi / param branch accepts both options set
check_args_accept_both(a) ==
    IF a.dp_mode \notin AcceptedDpModes
    THEN Error("ValueError", "check_args")
    ELSE IF a.model \notin AcceptedModels
    THEN Error("ValueError", "check_args")
    ELSE IF a.dp_mode \in {"dpsgd", "param_fixed"}
    THEN IF NeitherSet(a) THEN Error("ValueError", "check_args") ELSE NoError
    ELSE IF a.dp_mode \in {"lfa", "local_pvi", "param"}
    THEN NoError
    ELSE IF a.dp_mode \in {"nondp_batches", "nondp_epochs"}
    THEN NoError
    ELSE Error("ValueError", "check_args")

\* main, lines 59-93: the argument checks, the error they raise or NoError.
check_args(a) ==
    IF a.dp_mode \notin AcceptedDpModes
    THEN Error("ValueError", "check_args")
    ELSE IF a.model \notin AcceptedModels
    THEN Error("ValueError", "check_args")
    ELSE IF a.dp_mode \in {"dpsgd", "param_fixed"}
    THEN IF BothSet(a) THEN NoError
         ELSE IF a.sampling_frac_q # None THEN NoError
         ELSE IF a.batch_size # None THEN NoError
         ELSE Error("ValueError", "check_args")
    ELSE IF a.dp_mode \in {"lfa", "local_pvi", "param"}
    THEN IF BothSet(a) THEN Error("ValueError", "check_args") ELSE NoError
    ELSE IF a.dp_mode \in {"nondp_batches", "nondp_epochs"}
    THEN NoError
    ELSE Error("ValueError", "check_args")

\* ------------------------------------------------- utils: set_up_clients
\* main, line 125: the one model object every client is given
model == "LogisticRegressionModel"

\* a variant in which the factor is constructed once, before the loop
NewClient_one_factor(i, cls, data, t) ==
    [cls |-> cls, data |-> data, model |-> model, t |-> t, t_init |-> 1,
     update_counter |-> 0, log |-> <<>>]

\* set_up_clients, lines 52-81, iteration i: a client object of class cls
\* holding shard data, the model and a factor with natural parameters t.
\* t_init names the MeanFieldGaussianFactor object that line 55 constructed
\* for it (objects are numbered by the iteration that made them).
NewClient(i, cls, data, t) ==
    [cls |-> cls, data |-> data, model |-> model, t |-> t, t_init |-> i,
     update_counter |-> 0, log |-> <<>>]

\* a variant that builds a DPSGD client whatever the sampling options are
client_class_always_dpsgd(dp_mode, batch_size, sampling_frac_q) ==
    IF dp_mode \in {"lfa"} THEN [raised |-> None, cls |-> "LFA_Client"]
    ELSE IF dp_mode \in {"local_pvi"}
    THEN [raised |-> None, cls |-> "Local_PVI_Client"]
    ELSE IF dp_mode \in {"param"}
    THEN [raised |-> None, cls |-> "Param_DP_Client"]
    ELSE IF dp_mode \in {"dpsgd"}
    THEN [raised |-> None, cls |-> "DPSGD_Client"]
    ELSE IF dp_mode \in {"nondp_epochs", "nondp_batches"}
    THEN [raised |-> None, cls |-> "Client"]
    ELSE [raised |-> "ValueError", cls |-> None]

\* set_up_clients, lines 57-85: the class chosen for one shard, or the
\* exception raised instead of constructing a client.
client_class(dp_mode, batch_size, sampling_frac_q) ==
    IF dp_mode \in {"lfa"} THEN [raised |-> None, cls |-> "LFA_Client"]
    ELSE IF dp_mode \in {"local_pvi"}
    THEN [raised |-> None, cls |-> "Local_PVI_Client"]
    ELSE IF dp_mode \in {"param"}
    THEN [raised |-> None, cls |-> "Param_DP_Client"]
    ELSE IF dp_mode \in {"dpsgd"}
    THEN IF batch_size # None /\ sampling_frac_q # None
         THEN [raised |-> "NotImplementedError", cls |-> None]
         ELSE [raised |-> None, cls |-> "DPSGD_Client"]
    ELSE IF dp_mode \in {"nondp_epochs", "nondp_batches"}
    THEN [raised |-> None, cls |-> "Client"]
    ELSE [raised |-> "ValueError", cls |-> None]

RECURSIVE set_up_clients_from(_, _, _, _, _, _, _)
\* set_up_clients, lines 49-88: the loop from shard i on, acc the clients
\* appended so far.  On an exception the local list is lost (clients is
\* empty); made holds the objects constructed before the raise and at the
\* shard that raised.
set_up_clients_from(i, acc, data, nat_params, dp_mode, batch_size, sampling_frac_q) ==
    IF i > Len(data)
    THEN [raised |-> None, at |-> 0, clients |-> acc, made |-> acc]
    ELSE LET c == client_class(dp_mode, batch_size, sampling_frac_q)
         IN  IF c.raised # None
             THEN [raised |-> c.raised, at |-> i, clients |-> <<>>, made |-> acc]
             ELSE set_up_clients_from(
                      i + 1, Append(acc, NewClient(i, c.cls, data[i], nat_params)),
                      data, nat_params, dp_mode, batch_size, sampling_frac_q)

\* set_up_clients, lines 44-88.
set_up_clients(data, nat_params, dp_mode, batch_size, sampling_frac_q) ==
    set_up_clients_from(1, <<>>, data, nat_params, dp_mode, batch_size,
                        sampling_frac_q)

\* ------------------------------------------------ pvi package: clients
\* The local posteriors a client's optimisation (with its DP noise) can
\* land on in one round; a bounded stand-in for the model and the data.
LocalOptima == {[np1 |-> 1, np2 |-> -1], [np1 |-> 0, np2 |-> -2]}

\* pvi package, Client.update: the new factor of a client whose local
\* optimisation, started from the global posterior q it is shown, lands on
\* z; the factor absorbs the change z - q.
new_factor(z, q, t) == NatAdd(t, NatSub(z, q))

\* pvi package, Client.update: the client after one update against q.
client_update(c, z, q, round) ==
    [c EXCEPT !.t = new_factor(z, q, c.t),
              !.update_counter = c.update_counter + 1,
              !.log = Append(c.log, round)]

\* ------------------------------------------------ pvi package: servers
ServerClasses ==
    {"SequentialServer", "SynchronousServer", "BayesianCommitteeMachineSame",
     "BayesianCommitteeMachineSplit", "GlobalVIServer"}

\* pvi package, Server.should_stop: the iteration counter has reached
\* max_iterations.
should_stop(srv) == srv.iterations >= srv.max_iterations

ServerState(iterations, max_iterations) ==
    IF iterations >= max_iterations THEN "STOPPED" ELSE "RUNNING"

\* main before line 233: no server yet
NoServer ==
    [cls |-> None, p |-> NatZero, q |-> NatZero, iterations |-> 0,
     max_iterations |-> 0, state |-> None]

\* pvi package, Server.__init__(model, p, init_q, clients, config).
NewServer(cls, p, init_q, config) ==
    [cls |-> cls, p |-> p, q |-> init_q, iterations |-> 0,
     max_iterations |-> config.max_iterations,
     state |-> ServerState(0, config.max_iterations)]

RECURSIVE sequential_round(_, _, _, _, _)
\* pvi package, SequentialServer.tick: clients in list order, each shown
\* the posterior left by the previous one, its delta folded in at once.
sequential_round(i, q, cs, z, round) ==
    IF i > Len(cs) THEN [q |-> q, clients |-> cs]
    ELSE LET c == client_update(cs[i], z[i], q, round)
         IN  sequential_round(i + 1, NatAdd(NatSub(q, cs[i].t), c.t),
                              [cs EXCEPT ![i] = c], z, round)

\* pvi package, SynchronousServer.tick and the committee machines: every
\* client is shown the same posterior shown, and all deltas are folded
\* into q afterwards.
parallel_round(shown, q, cs, z, round) ==
    LET new == [i \in 1..Len(cs) |-> client_update(cs[i], z[i], shown, round)]
    IN  [q |-> NatAdd(NatSub(q, SumFactors(cs)), SumFactors(new)),
         clients |-> new]

\* pvi package, Server.tick: one global round.  A stopped server raises.
tick(srv, cs, z) ==
    IF should_stop(srv)
    THEN [raised |-> "RuntimeError", server |-> srv, clients |-> cs]
    ELSE LET r == IF srv.cls = "SequentialServer"
                  THEN sequential_round(1, srv.q, cs, z, srv.iterations)
                  ELSE IF srv.cls = "SynchronousServer"
                  THEN parallel_round(srv.q, srv.q, cs, z, srv.iterations)
                  ELSE IF srv.cls = "GlobalVIServer"
                  THEN [q |-> z[1], clients |-> cs]
                  ELSE parallel_round(srv.p, srv.q, cs, z, srv.iterations)
         IN  [raised |-> None,
              server |-> [srv EXCEPT
                  !.q = r.q,
                  !.iterations = srv.iterations + 1,
                  !.state = ServerState(srv.iterations + 1, srv.max_iterations)],
              clients |-> r.clients]

\* the local optima handed to one round over n clients
RoundOptima(n) == [1..(IF n = 0 THEN 1 ELSE n) -> LocalOptima]

\* ------------------------------------------ main: server construction
\* a variant that leaves max_iterations alone for the committee machines
server_config_no_bcm_override(a) ==
    [max_iterations |-> a.n_global_updates, dp_mode |-> a.dp_mode]

\* a variant that sizes the run like the n_global_updates + 1 parameter trace
server_config_one_more(a) ==
    [max_iterations |->
         IF a.model \in {"bcm_same", "bcm_split"} THEN 1
         ELSE a.n_global_updates + 1,
     dp_mode |-> a.dp_mode]

\* main, lines 188-202: server_config.
server_config(a) ==
    [max_iterations |->
         IF a.model \in {"bcm_same", "bcm_split"} THEN 1
         ELSE a.n_global_updates,
     dp_mode |-> a.dp_mode]

\* a variant that takes the committee machine for the synchronous server
ChosenServer_sync_bcm(a) ==
    IF a.model \in {"bcm_same", "bcm_split"}
    THEN IF a.model = "bcm_same" THEN "BayesianCommitteeMachineSame"
         ELSE "BayesianCommitteeMachineSplit"
    ELSE IF a.model = "global_vi" THEN "GlobalVIServer"
    ELSE IF a.model = "pvi"
    THEN IF a.server = "synchronous" THEN "BayesianCommitteeMachineSame"
         ELSE IF a.server = "sequential" THEN "SequentialServer"
         ELSE None
    ELSE None

\* main, lines 201-231: ChosenServer, None where main raises instead.
ChosenServer(a) ==
    IF a.model \in {"bcm_same", "bcm_split"}
    THEN IF a.model = "bcm_same" THEN "BayesianCommitteeMachineSame"
         ELSE "BayesianCommitteeMachineSplit"
    ELSE IF a.model = "global_vi" THEN "GlobalVIServer"
    ELSE IF a.model = "pvi"
    THEN IF a.server = "synchronous" THEN "SynchronousServer"
         ELSE IF a.server = "sequential" THEN "SequentialServer"
         ELSE None
    ELSE None

\* main, lines 186-187 and 233-237: q is built from prior_std_params and
\* handed to the server as both p and init_q.
make_server(a) ==
    LET q == nat_from_std(prior_std_params)
    IN  NewServer(ChosenServer(a), q, q, server_config(a))

\* -------------------------------------------------------- the run of main
VARIABLES
    sv_args,       \* SpecServers: the arguments both servers are built from
    sv,            \* SpecServers: per discipline, the server and its clients
    sv_calls,      \* SpecServers: the tick() calls made on each server
    sv_raised      \* SpecServers: per discipline, what the last tick() raised

servers_vars == <<sv_args, sv, sv_calls, sv_raised>>

VARIABLES
    g_args,        \* SpecPart: the arguments of generate_clients_data
    g_pc,          \* SpecPart: the position inside generate_clients_data
    g_loc,         \* SpecPart: its local variables
    g_ret,         \* SpecPart: what it returned or raised
    np_random,     \* the state of numpy's process-wide generator
    tape,          \* what the generator has returned, per state it was in
    g_call,        \* SpecTwice: 1 in the first call, 2 in the second
    g_entry,       \* the generator's state when the current call began
    g_first        \* SpecTwice: the first call's outcome and entry state

call_vars == <<g_call, g_entry, g_first>>

part_vars == <<g_args, g_pc, g_loc, g_ret, np_random, tape, call_vars>>

VARIABLES
    b_args,        \* SpecSigma: the arguments of bin_search_sigma
    b_pc,          \* SpecSigma: the position inside bin_search_sigma
    b_loc,         \* SpecSigma: its local variables
    b_evals,       \* SpecSigma: the accountant's evaluations, in order
    b_ret          \* SpecSigma: what it returned or raised

sigma_vars == <<b_args, b_pc, b_loc, b_evals, b_ret>>

VARIABLES
    k_cfg,         \* SpecClip: the client's class and its dp_C
    k_round,       \* SpecClip: the rounds the client has run
    k_pre,         \* SpecClip: this round's units of clipping, before
    k_post         \* SpecClip: the same units after clipping, before noise

clip_vars == <<k_cfg, k_round, k_pre, k_post>>

VARIABLES
    r_args,        \* SpecSwap: the arguments of init_clients_from_existing
    r_pc,          \* SpecSwap: the position inside it
    r_loc,         \* SpecSwap: its local variables
    r_server,      \* SpecSwap: the server object it is handed
    r_config,      \* SpecSwap: the caller's client_config dictionary
    r_ret          \* SpecSwap: what it returned or raised

swap_vars == <<r_args, r_pc, r_loc, r_server, r_config, r_ret>>

vars == <<driver_vars, servers_vars, part_vars, sigma_vars, clip_vars,
          swap_vars>>

DriverIdle ==
    /\ args = None /\ pc = "idle" /\ err = NoError /\ seeded = FALSE
    /\ returned = {} /\ client_data = <<>> /\ constructed = <<>>
    /\ clients = <<>> /\ server = NoServer /\ n_ticks = 0 /\ i_global = 0

ServersIdle ==
    /\ sv_args = None /\ sv = None /\ sv_calls = 0 /\ sv_raised = None

PartIdle ==
    /\ g_args = None /\ g_pc = "idle" /\ g_loc = None /\ g_ret = None
    /\ np_random = None /\ tape = {} /\ g_call = 0
    /\ g_entry = None /\ g_first = None

SigmaIdle ==
    /\ b_args = None /\ b_pc = "idle" /\ b_loc = None
    /\ b_evals = <<>> /\ b_ret = None

ClipIdle ==
    /\ k_cfg = None /\ k_round = 0 /\ k_pre = <<>> /\ k_post = <<>>

SwapIdle ==
    /\ r_args = None /\ r_pc = "idle" /\ r_loc = None /\ r_server = None
    /\ r_config = None /\ r_ret = None

\* main is entered with parsed arguments; nothing has run yet.
DriverInit ==
    /\ args \in ArgsInputs
    /\ pc = "check_args"
    /\ err = NoError
    /\ seeded = FALSE
    /\ returned = {}
    /\ client_data = <<>>
    /\ constructed = <<>>
    /\ clients = <<>>
    /\ server = NoServer
    /\ n_ticks = 0
    /\ i_global = 0

Init == DriverInit /\ ServersIdle /\ PartIdle /\ SigmaIdle /\ ClipIdle /\ SwapIdle

Raise(e) == pc' = "error" /\ err' = e

\* main, lines 59-93.
CheckArgs ==
    /\ pc = "check_args"
    /\ LET e == check_args(args)
       IN  IF e = NoError
           THEN pc' = "fix_seeds" /\ err' = err
           ELSE Raise(e)
    /\ UNCHANGED <<args, seeded, returned, client_data, constructed, clients,
                   server, n_ticks, i_global>>

\* main, lines 95-100.
FixSeeds ==
    /\ pc = "fix_seeds"
    /\ seeded' = TRUE
    /\ pc' = "client_split"
    /\ UNCHANGED <<args, err, returned, client_data, constructed, clients,
                   server, n_ticks, i_global>>

\* standard_client_split: what it can raise (np.load on a missing file,
\* N/M with M = 0, the ValueErrors of generate_clients_data).
SplitErrors == {"FileNotFoundError", "ZeroDivisionError", "ValueError"}

\* main, lines 108-110: standard_client_split returns one shard per
\* requested client, or raises.
ClientSplit ==
    /\ pc = "client_split"
    /\ \E outcome \in {"returns"} \cup SplitErrors :
          IF outcome = "returns"
          THEN /\ client_data' = [i \in 1..args.clients |-> i]
               /\ returned' = returned \cup {"standard_client_split"}
               /\ pc' = "set_up_clients"
               /\ err' = err
          ELSE /\ UNCHANGED <<client_data, returned>>
               /\ Raise(Error(outcome, "standard_client_split"))
    /\ UNCHANGED <<args, seeded, constructed, clients, server, n_ticks,
                   i_global>>

\* main, line 183.
SetUpClients ==
    /\ pc = "set_up_clients"
    /\ LET r == set_up_clients(client_data, init_nat_params, args.dp_mode,
                               args.batch_size, args.sampling_frac_q)
       IN  /\ constructed' = r.made
           /\ IF r.raised = None
              THEN /\ clients' = r.clients
                   /\ returned' = returned \cup {"set_up_clients"}
                   /\ pc' = "make_server"
                   /\ err' = err
              ELSE /\ UNCHANGED <<clients, returned>>
                   /\ Raise(Error(r.raised, "set_up_clients"))
    /\ UNCHANGED <<args, seeded, client_data, server, n_ticks, i_global>>

\* main, lines 186-237.
MakeServer ==
    /\ pc = "make_server"
    /\ IF ChosenServer(args) = None
       THEN /\ Raise(Error("ValueError", "ChosenServer"))
            /\ UNCHANGED <<args, server>>
       ELSE /\ server' = make_server(args)
            /\ args' = IF args.model = "global_vi"
                       THEN [args EXCEPT !.clients = 1] ELSE args
            /\ pc' = "loop"
            /\ err' = err
    /\ UNCHANGED <<seeded, returned, client_data, constructed, clients,
                   n_ticks, i_global>>

\* main, lines 271-305: one pass of the training loop, server.tick() and
\* the writes into the metric arrays of length n_global_updates.
LoopBody ==
    /\ pc = "loop"
    /\ ~should_stop(server)
    /\ \E z \in RoundOptima(Len(clients)) :
          LET r == tick(server, clients, z)
          IN  /\ n_ticks' = n_ticks + 1
              /\ server' = r.server
              /\ clients' = r.clients
              /\ IF r.raised # None
                 THEN Raise(Error(r.raised, "tick")) /\ i_global' = i_global
                 ELSE IF i_global >= args.n_global_updates
                 THEN Raise(Error("IndexError", "metrics")) /\ i_global' = i_global
                 ELSE pc' = "loop" /\ err' = err /\ i_global' = i_global + 1
    /\ UNCHANGED <<args, seeded, returned, client_data, constructed>>

\* main, line 271: the loop ends when the server reports it should stop.
LoopExit ==
    /\ pc = "loop"
    /\ should_stop(server)
    /\ pc' = "done"
    /\ UNCHANGED <<args, err, seeded, returned, client_data, constructed,
                   clients, server, n_ticks, i_global>>

Next ==
    \/ CheckArgs /\ UNCHANGED <<servers_vars, part_vars, sigma_vars, clip_vars, swap_vars>>
    \/ FixSeeds /\ UNCHANGED <<servers_vars, part_vars, sigma_vars, clip_vars, swap_vars>>
    \/ ClientSplit /\ UNCHANGED <<servers_vars, part_vars, sigma_vars, clip_vars, swap_vars>>
    \/ SetUpClients /\ UNCHANGED <<servers_vars, part_vars, sigma_vars, clip_vars, swap_vars>>
    \/ MakeServer /\ UNCHANGED <<servers_vars, part_vars, sigma_vars, clip_vars, swap_vars>>
    \/ LoopBody /\ UNCHANGED <<servers_vars, part_vars, sigma_vars, clip_vars, swap_vars>>
    \/ LoopExit /\ UNCHANGED <<servers_vars, part_vars, sigma_vars, clip_vars, swap_vars>>

Spec == Init /\ [][Next]_vars

\* ------------------------------------- two servers ticked side by side
Disciplines == {"sequential", "synchronous"}

\* the arguments with which main gets as far as constructing a pvi server
ServerArgs ==
    {a \in ArgsInputs :
        /\ a.model = "pvi" /\ a.server = "sequential"
        /\ check_args(a) = NoError
        /\ set_up_clients([i \in 1..a.clients |-> i], init_nat_params,
                          a.dp_mode, a.batch_size, a.sampling_frac_q).raised = None}

\* main, lines 183-237, run once per discipline on the same arguments.
ServersInit ==
    /\ sv_args \in ServerArgs
    /\ sv = [d \in Disciplines |->
               LET a == [sv_args EXCEPT !.server = d]
               IN  [server |-> make_server(a),
                    clients |-> set_up_clients(
                        [i \in 1..a.clients |-> i], init_nat_params,
                        a.dp_mode, a.batch_size, a.sampling_frac_q).clients]]
    /\ sv_calls = 0
    /\ sv_raised = [d \in Disciplines |-> None]

\* tick() is called on both servers; their clients land on the same
\* local optima z.
TickBoth ==
    /\ sv_calls < MaxCalls
    /\ \E z \in RoundOptima(sv_args.clients) :
          /\ sv' = [d \in Disciplines |->
                      LET r == tick(sv[d].server, sv[d].clients, z)
                      IN  [server |-> r.server, clients |-> r.clients]]
          /\ sv_raised' = [d \in Disciplines |->
                             tick(sv[d].server, sv[d].clients, z).raised]
    /\ sv_calls' = sv_calls + 1
    /\ UNCHANGED sv_args

ServersNext == TickBoth /\ UNCHANGED <<driver_vars, part_vars, sigma_vars, clip_vars, swap_vars>>

InitServers == DriverIdle /\ ServersInit /\ PartIdle /\ SigmaIdle /\ ClipIdle /\ SwapIdle

SpecServers == InitServers /\ [][ServersNext]_vars

\* ------------------------------------------------- properties of the run
ExactlyOneSet(a) == ~BothSet(a) /\ ~NeitherSet(a)

PriorNat == nat_from_std(prior_std_params)

NothingStarted ==
    /\ ~seeded /\ returned = {} /\ constructed = <<>>
    /\ server = NoServer /\ n_ticks = 0

\* C1: once main has built a sequential or synchronous server over the
\* prior and the clients' zero factors, and after any number of tick()
\* calls, the global posterior's natural parameters are the prior's plus
\* the sum of the client factors'.
C1_GlobalConsistency ==
    (server.cls \in {"SequentialServer", "SynchronousServer"})
        => server.q = NatAdd(PriorNat, SumFactors(clients))

C1_Witness ==
    /\ server.cls \in {"SequentialServer", "SynchronousServer"}
    /\ n_ticks = 2
    /\ Len(clients) = 2
    /\ server.q # PriorNat
    /\ clients[1].t # NatZero /\ clients[2].t # NatZero

C3_NeitherSetRejected ==
    (args.dp_mode \in DpSensitiveModes /\ NeitherSet(args) /\ pc # "check_args")
        => /\ pc = "error"
           /\ err = Error("ValueError", "check_args")
           /\ constructed = <<>>
           /\ n_ticks = 0

\* C4: for a dp_mode outside the documented modes, or a model outside
\* {pvi, bcm_split, bcm_same, global_vi}, every state after main's checks
\* is the ValueError raised by them, with no seeding, split, client,
\* server or tick: the run never resumes.
C4_UnknownModeOrModel ==
    ((args.dp_mode \notin DocumentedDpModes \/ args.model \notin AcceptedModels)
     /\ pc # "check_args")
        => /\ pc = "error"
           /\ err = Error("ValueError", "check_args")
           /\ NothingStarted

C4_Witness ==
    /\ args.dp_mode = "server" /\ args.model \in AcceptedModels
    /\ pc = "error"

\* C5 as stated: every documented dp_mode with exactly one of batch_size,
\* sampling_frac_q set and at least one shard passes main's checks, and
\* set_up_clients returns one client per shard without raising.
C5_DocumentedModesSetUp ==
    (/\ args.dp_mode \in DocumentedDpModes
     /\ args.model \in AcceptedModels
     /\ ExactlyOneSet(args)
     /\ "standard_client_split" \in returned
     /\ Len(client_data) > 0
     /\ pc # "set_up_clients")
        => /\ err.at \notin {"check_args", "set_up_clients"}
           /\ "set_up_clients" \in returned
           /\ Len(clients) = Len(client_data)

\* C6: dpsgd with both batch_size and sampling_frac_q set and at least one
\* shard: set_up_clients raises NotImplementedError at the first shard,
\* returns no client list and has constructed no client.
C6_UserLevelDpsgdRejected ==
    (/\ args.dp_mode = "dpsgd" /\ BothSet(args)
     /\ "standard_client_split" \in returned
     /\ Len(client_data) > 0
     /\ pc # "set_up_clients")
        => /\ pc = "error"
           /\ err = Error("NotImplementedError", "set_up_clients")
           /\ "set_up_clients" \notin returned
           /\ constructed = <<>>
           /\ set_up_clients(client_data, init_nat_params, args.dp_mode,
                             args.batch_size, args.sampling_frac_q).at = 1

C6_Witness ==
    /\ args.dp_mode = "dpsgd" /\ BothSet(args)
    /\ Len(client_data) = 2
    /\ pc = "error" /\ err.at = "set_up_clients"

\* C8: with model bcm_same or bcm_split the server's max_iterations is 1
\* and the run makes exactly one tick(), whatever n_global_updates is.
C8_CommitteeMachineOneRound ==
    args.model \in {"bcm_same", "bcm_split"} =>
        /\ n_ticks <= 1
        /\ server # NoServer => server.max_iterations = 1
        /\ (pc = "done" \/ (pc = "error" /\ err.at = "metrics")) => n_ticks = 1

C8_Witness ==
    /\ args.model \in {"bcm_same", "bcm_split"}
    /\ args.n_global_updates = 2
    /\ pc = "done"
    /\ n_ticks = 1

\* ------------------------------------------ properties of the two servers
\* C7: a server is STOPPED exactly when its iteration counter has reached
\* the max_iterations main configured (n_global_updates), a STOPPED server
\* never changes again, and a tick() made on a STOPPED server raises.
C7_StoppedAtMaxIterations ==
    /\ [](\A d \in Disciplines :
            /\ sv[d].server.state = "STOPPED"
                  <=> sv[d].server.iterations = sv_args.n_global_updates
            /\ sv[d].server.iterations <= sv_args.n_global_updates)
    /\ [][\A d \in Disciplines :
            sv[d].server.state = "STOPPED" =>
                /\ sv'[d] = sv[d]
                /\ (sv_calls' = sv_calls + 1 => sv_raised'[d] # None)]_vars
    /\ [][\A d \in Disciplines :
            (sv[d].server.state = "RUNNING" /\ sv_calls' = sv_calls + 1) =>
                /\ sv_raised'[d] = None
                /\ sv'[d].server.iterations = sv[d].server.iterations + 1]_vars

C7_Witness ==
    /\ sv_args.n_global_updates = 2
    /\ sv_calls = 3
    /\ \A d \in Disciplines :
          /\ sv[d].server.state = "STOPPED"
          /\ sv[d].server.iterations = 2
          /\ sv_raised[d] # None

\* C9: with exactly one client and the same local optima, the sequential
\* and the synchronous server hold the same global posterior (and the
\* same client factor and iteration counter) after every round.
C9_OneClientSameTrajectory ==
    sv_args.clients = 1 =>
        /\ sv["sequential"].server.q = sv["synchronous"].server.q
        /\ sv["sequential"].server.iterations = sv["synchronous"].server.iterations
        /\ sv["sequential"].clients[1].t = sv["synchronous"].clients[1].t

C9_Witness ==
    /\ sv_args.clients = 1
    /\ sv["sequential"].server.iterations = 2
    /\ sv["synchronous"].server.iterations = 2
    /\ sv["sequential"].server.q # PriorNat
    /\ sv["sequential"].clients[1].t # NatZero

\* with two clients the two disciplines can part: the case C9 leaves out
TwoClientsAgree ==
    sv_args.clients = 2 =>
        sv["sequential"].server.q = sv["synchronous"].server.q

\* ------------------------------------------ utils: generate_clients_data
\* The training set is N rows; row j of x is written j and y[j] is its
\* label, 0 or 1.  The two factors are rationals num/den.
Factors ==
    {[num |-> 0, den |-> 1], [num |-> 1, den |-> 2], [num |-> 1, den |-> 1]}

Labels == UNION {[1..n -> {0, 1}] : n \in 1..MaxN}

\* main, line 109: standard_client_split is called with dataset_seed None
PartInputs ==
    [y : Labels, M : 1..MaxM, client_size_factor : Factors,
     class_balance_factor : Factors, dataset_seed : {None}]

\* The generator's state is written as where its stream began (a seed or
\* some earlier state) and the sizes drawn from it since; what it returns
\* is a function of that state, otherwise free.
RngState(origin, drawn) == [origin |-> origin, drawn |-> drawn]

\* np.random.seed(seed)
Seeded(seed) == RngState(seed, <<>>)

NoRngState == RngState(None, <<>>)

\* a variant that never reseeds
state_at_entry_unseeded(dataset_seed, st) == st

\* generate_clients_data, lines 458-460: the generator's state once the
\* optional seeding is done.
state_at_entry(dataset_seed, st) ==
    IF dataset_seed # None THEN Seeded(dataset_seed) ELSE st

\* numpy slices s[:k] and s[k:], 0 <= k; a slice past the end is short
SliceTo(s, k) == SubSeq(s, 1, IF k < Len(s) THEN k ELSE Len(s))

\* a variant that hands out a slice without taking it off the array
SliceFrom_whole(s, k) == s

SliceFrom(s, k) == SubSeq(s, (IF k < Len(s) THEN k ELSE Len(s)) + 1, Len(s))

\* numpy fancy indexing s[inds]
Take(s, inds) == [j \in 1..Len(inds) |-> s[inds[j]]]

\* generate_clients_data, line 492: np.where(y > 0)[0].
pos_inds(y) ==
    LET F[j \in 0..Len(y)] ==
            IF j = 0 THEN <<>>
            ELSE IF y[j] > 0 THEN Append(F[j - 1], j) ELSE F[j - 1]
    IN  F[Len(y)]

\* generate_clients_data, line 493: np.where(y == 0)[0].
zero_inds(y) ==
    LET F[j \in 0..Len(y)] ==
            IF j = 0 THEN <<>>
            ELSE IF y[j] = 0 THEN Append(F[j - 1], j) ELSE F[j - 1]
    IN  F[Len(y)]

\* np.random.permutation(n): the orders it can return
Permutation(n) == Permutations(1..n)

\* np.random.permutation(n) with the generator in state st: the index
\* array returned, the state left behind and the tape.  Fewer than two
\* rows need no draw; a state met before returns what it returned then.
permutation(st, tp, n) ==
    IF n < 2
    THEN {[inds |-> [j \in 1..n |-> j], state |-> st, tape |-> tp]}
    ELSE LET after == RngState(st.origin, Append(st.drawn, n))
         IN  IF \E e \in tp : e.state = after
             THEN {[inds |-> (CHOOSE e \in tp : e.state = after).inds,
                    state |-> after, tape |-> tp]}
             ELSE {[inds |-> p, state |-> after,
                    tape |-> tp \cup {[state |-> after, inds |-> p]}] :
                      p \in Permutation(n)}

\* a variant that takes M/2 for the number of clients sharing the data
small_client_size_per_half(N, M, f) ==
    ((f.den - f.num) * N * 2) \div (f.den * M)

\* generate_clients_data, line 472: floor((1 - client_size_factor) * N/M).
small_client_size(N, M, f) == ((f.den - f.num) * N) \div (f.den * M)

\* a variant that rounds the large-client size up
big_client_size_ceil(N, M, f) ==
    ((f.den + f.num) * N + f.den * M - 1) \div (f.den * M)

\* generate_clients_data, line 473: floor((1 + client_size_factor) * N/M).
big_client_size(N, M, f) == ((f.den + f.num) * N) \div (f.den * M)

\* generate_clients_data, lines 475-478: with class_balance = n_neg / N,
\* floor(small * (class_balance + (1 - class_balance) * factor)).
small_client_negative_class_size(small, N, n_neg, k) ==
    (small * (n_neg * k.den + (N - n_neg) * k.num)) \div (N * k.den)

\* generate_clients_data, line 488: (1 - class_balance) * N evaluated in
\* IEEE double falls just below the number of positive examples for these
\* <<N, n_neg>> (all such pairs with N <= 10); class_balance * N of line
\* 485 is exact for N <= 10.
PositiveCapacityRoundsLow(N, n_neg) ==
    <<N, n_neg>> \in {<<5, 4>>, <<6, 5>>, <<10, 8>>, <<10, 9>>}

\* a variant without the test on the positive class
size_check_negative_only(N, M, n_neg, small_neg, small_pos) ==
    IF small_neg < 0 THEN "small_client_negative_class_size is negative"
    ELSE IF small_pos < 0 THEN "small_client_positive_class_size is negative"
    ELSE IF small_neg * (M \div 2) > n_neg
    THEN "Not enough negative class instances"
    ELSE None

\* generate_clients_data, lines 481-489: the ValueError raised, or None.
size_check(N, M, n_neg, small_neg, small_pos) ==
    IF small_neg < 0 THEN "small_client_negative_class_size is negative"
    ELSE IF small_pos < 0 THEN "small_client_positive_class_size is negative"
    ELSE IF small_neg * (M \div 2) > n_neg
    THEN "Not enough negative class instances"
    ELSE IF \/ small_pos * (M \div 2) > N - n_neg
            \/ /\ PositiveCapacityRoundsLow(N, n_neg)
               /\ small_pos * (M \div 2) >= N - n_neg
    THEN "Not enough positive class instances"
    ELSE None

\* a variant that lets every client count through
odd_client_count_ignored(M) == FALSE

\* generate_clients_data, line 469: the test M % 2 != 0.
odd_client_count(M) == M % 2 # 0

\* a shard: rows x and labels y, kept as two parallel arrays
Shard(x, y) == [x |-> x, y |-> y]

NoLocals ==
    [small_client_size |-> 0, big_client_size |-> 0,
     small_client_negative_class_size |-> 0,
     small_client_positive_class_size |-> 0,
     x_pos |-> <<>>, y_pos |-> <<>>, x_neg |-> <<>>, y_neg |-> <<>>,
     x |-> <<>>, y |-> <<>>, i |-> 0, client_data |-> <<>>,
     random_state |-> NoRngState]

NoReturn == [raised |-> None, client_data |-> <<>>, N_is |-> <<>>, M |-> 0]

NoFirst == [ret |-> NoReturn, entry |-> NoRngState]

\* the states the process-wide generator can be in when a call begins
RngOrigins == {"seed_a", "state_a"}

PartInit ==
    /\ g_args \in PartInputs
    /\ g_pc = "entry"
    /\ g_loc = NoLocals
    /\ g_ret = NoReturn
    /\ np_random = Seeded("state_a")
    /\ tape = {}
    /\ g_call = 1
    /\ g_entry = np_random
    /\ g_first = NoFirst

\* generate_clients_data, lines 458-501: the seeding, the M = 1 return,
\* the parity and size checks, and the split of the rows by label.
GenEntry ==
    /\ g_pc = "entry"
    /\ LET y == g_args.y
           x == [j \in 1..Len(y) |-> j]
           M == g_args.M
           N == Len(y)
           small == small_client_size(N, M, g_args.client_size_factor)
           big == big_client_size(N, M, g_args.client_size_factor)
           small_neg == small_client_negative_class_size(
                            small, N, Len(zero_inds(y)), g_args.class_balance_factor)
           small_pos == small - small_neg
           check == size_check(N, M, Len(zero_inds(y)), small_neg, small_pos)
       IN  IF M = 1
           THEN /\ g_ret' = [raised |-> None, client_data |-> <<Shard(x, y)>>,
                             N_is |-> <<N>>, M |-> M]
                /\ g_pc' = "returned"
                /\ g_loc' = g_loc
           ELSE IF odd_client_count(M)
           THEN /\ g_ret' = [g_ret EXCEPT !.raised = "Num clients should be even"]
                /\ g_pc' = "raised"
                /\ g_loc' = g_loc
           ELSE IF check # None
           THEN /\ g_ret' = [g_ret EXCEPT !.raised = check]
                /\ g_pc' = "raised"
                /\ g_loc' = g_loc
           ELSE /\ g_loc' = [g_loc EXCEPT
                        !.small_client_size = small,
                        !.big_client_size = big,
                        !.small_client_negative_class_size = small_neg,
                        !.small_client_positive_class_size = small_pos,
                        !.x_pos = Take(x, pos_inds(y)),
                        !.y_pos = Take(y, pos_inds(y)),
                        !.x_neg = Take(x, zero_inds(y)),
                        !.y_neg = Take(y, zero_inds(y)),
                        !.random_state = IF g_args.dataset_seed # None
                                         THEN np_random ELSE @]
                /\ g_pc' = "small_clients"
                /\ g_ret' = g_ret
    /\ np_random' = state_at_entry(g_args.dataset_seed, np_random)
    /\ UNCHANGED <<g_args, tape, call_vars>>

\* generate_clients_data, lines 506-525: one pass of the small-client
\* loop; after the last pass control moves to the recombination.
GenSmallClient ==
    /\ g_pc = "small_clients"
    /\ LET n_pos == g_loc.small_client_positive_class_size
           n_neg == g_loc.small_client_negative_class_size
           client_x == SliceTo(g_loc.x_pos, n_pos) \o SliceTo(g_loc.x_neg, n_neg)
           client_y == SliceTo(g_loc.y_pos, n_pos) \o SliceTo(g_loc.y_neg, n_neg)
       IN  \E drawn \in permutation(np_random, tape, Len(client_x)) :
              LET shuffle_inds == drawn.inds
              IN  /\ g_loc' = [g_loc EXCEPT
                        !.x_pos = SliceFrom(g_loc.x_pos, n_pos),
                        !.y_pos = SliceFrom(g_loc.y_pos, n_pos),
                        !.x_neg = SliceFrom(g_loc.x_neg, n_neg),
                        !.y_neg = SliceFrom(g_loc.y_neg, n_neg),
                        !.client_data = Append(g_loc.client_data,
                            Shard(Take(client_x, shuffle_inds),
                                  Take(client_y, shuffle_inds))),
                        !.i = g_loc.i + 1]
                  /\ np_random' = drawn.state
                  /\ tape' = drawn.tape
    /\ g_pc' = IF g_loc.i + 1 < g_args.M \div 2
               THEN "small_clients" ELSE "recombine"
    /\ UNCHANGED <<g_args, g_ret, call_vars>>

\* generate_clients_data, lines 527-533: the rest is recombined and shuffled.
GenRecombine ==
    /\ g_pc = "recombine"
    /\ LET x == g_loc.x_pos \o g_loc.x_neg
           y == g_loc.y_pos \o g_loc.y_neg
       IN  \E drawn \in permutation(np_random, tape, Len(x)) :
              LET shuffle_inds == drawn.inds
              IN  /\ g_loc' = [g_loc EXCEPT !.x = Take(x, shuffle_inds),
                                            !.y = Take(y, shuffle_inds),
                                            !.i = 0]
                  /\ np_random' = drawn.state
                  /\ tape' = drawn.tape
    /\ g_pc' = "big_clients"
    /\ UNCHANGED <<g_args, g_ret, call_vars>>

RECURSIVE big_clients(_, _, _, _, _)
\* generate_clients_data, lines 536-543: the large-client loop from pass
\* i on, over what is left of x and y.
big_clients(i, n, x, y, size) ==
    IF i >= n THEN <<>>
    ELSE <<Shard(SliceTo(x, size), SliceTo(y, size))>>
         \o big_clients(i + 1, n, SliceFrom(x, size), SliceFrom(y, size), size)

\* generate_clients_data, lines 535-551: the large clients and the return.
GenBigClients ==
    /\ g_pc = "big_clients"
    /\ LET shards ==
               g_loc.client_data \o
               big_clients(0, g_args.M \div 2, g_loc.x, g_loc.y,
                           g_loc.big_client_size)
       IN  /\ g_loc' = [g_loc EXCEPT !.client_data = shards]
           /\ g_ret' = [raised |-> None, client_data |-> shards,
                        N_is |-> [j \in 1..Len(shards) |-> Len(shards[j].x)],
                        M |-> g_args.M]
    /\ np_random' = IF g_args.dataset_seed # None
                     THEN g_loc.random_state ELSE np_random
    /\ g_pc' = "returned"
    /\ UNCHANGED <<g_args, tape, call_vars>>

PartNext ==
    \/ GenEntry /\ UNCHANGED <<driver_vars, servers_vars, sigma_vars, clip_vars, swap_vars>>
    \/ GenSmallClient /\ UNCHANGED <<driver_vars, servers_vars, sigma_vars, clip_vars, swap_vars>>
    \/ GenRecombine /\ UNCHANGED <<driver_vars, servers_vars, sigma_vars, clip_vars, swap_vars>>
    \/ GenBigClients /\ UNCHANGED <<driver_vars, servers_vars, sigma_vars, clip_vars, swap_vars>>

InitPart == DriverIdle /\ ServersIdle /\ PartInit /\ SigmaIdle /\ ClipIdle /\ SwapIdle

SpecPart == InitPart /\ [][PartNext]_vars

\* ------------------------------- generate_clients_data, called twice
\* standard_client_split hands its dataset_seed on (utils.py lines 208-213
\* and 302-307), and an experiment over several splits calls it again
\* with the same arguments.
DatasetSeeds == {None, "seed_a"}

ShortLabels == UNION {[1..n -> {0, 1}] : n \in 1..MaxRows}

TwiceInputs ==
    [y : ShortLabels, M : 1..MaxM, client_size_factor : Factors,
     class_balance_factor : Factors, dataset_seed : DatasetSeeds]

TwiceInit ==
    /\ g_args \in TwiceInputs
    /\ g_pc = "entry"
    /\ g_loc = NoLocals
    /\ g_ret = NoReturn
    /\ np_random \in {Seeded(o) : o \in RngOrigins}
    /\ tape = {}
    /\ g_call = 1
    /\ g_entry = np_random
    /\ g_first = NoFirst

\* The first call is over; the same arguments are passed again, with the
\* process-wide generator as the first call left it, as the first call
\* found it, or reseeded by the caller in between.
CallAgain ==
    /\ g_call = 1
    /\ g_pc \in {"returned", "raised"}
    /\ g_first' = [ret |-> g_ret, entry |-> g_entry]
    /\ g_call' = 2
    /\ g_pc' = "entry"
    /\ g_loc' = NoLocals
    /\ g_ret' = NoReturn
    /\ \E st \in {np_random, g_entry} \cup {Seeded(o) : o \in RngOrigins} :
          /\ np_random' = st
          /\ g_entry' = st
    /\ UNCHANGED <<g_args, tape>>

TwiceNext ==
    \/ PartNext
    \/ CallAgain /\ UNCHANGED <<driver_vars, servers_vars, sigma_vars, clip_vars, swap_vars>>

InitTwice == DriverIdle /\ ServersIdle /\ TwiceInit /\ SigmaIdle /\ ClipIdle /\ SwapIdle

SpecTwice == InitTwice /\ [][TwiceNext]_vars

\* C10: whenever generate_clients_data returns for an even M and
\* client_size_factor = 0, it returns M shards and any two shard sizes
\* differ by at most 1.
C10_EqualSizes ==
    (/\ g_pc = "returned"
     /\ g_args.M % 2 = 0
     /\ g_args.client_size_factor.num = 0)
        => /\ Len(g_ret.client_data) = g_args.M
           /\ \A a, b \in 1..g_args.M :
                 /\ Len(g_ret.client_data[a].x) = Len(g_ret.client_data[a].y)
                 /\ Len(g_ret.client_data[a].x) - Len(g_ret.client_data[b].x) <= 1

C10_Witness ==
    /\ g_pc = "returned"
    /\ g_args.M = 4
    /\ g_args.client_size_factor.num = 0
    /\ Len(g_args.y) = 5
    /\ Len(g_ret.client_data) = 4
    /\ \A a \in 1..4 : Len(g_ret.client_data[a].x) = 1

\* number of positive labels in a label array: np.sum(y > 0)
n_positive(y) == Cardinality({j \in 1..Len(y) : y[j] > 0})

\* number of zero labels in a label array: np.sum(y == 0)
n_zero(y) == Cardinality({j \in 1..Len(y) : y[j] = 0})

\* |a - b| for integers
AbsDiff(a, b) == IF a >= b THEN a - b ELSE b - a

\* a shard's positive count is within 1 example of
\* (shard size x global positive proportion); both sides are multiplied
\* by N = Len(y) to stay in the integers
WithinOneOfGlobal(shard, y) ==
    AbsDiff(n_positive(shard.y) * Len(y), Len(shard.y) * n_positive(y))
        <= Len(y)

\* C11 as stated: whenever generate_clients_data returns for an even M and
\* class_balance_factor = 0, every one of the M shards has a positive count
\* within 1 example of (shard size x global positive proportion).
C11_AllShardsGlobalProportion ==
    (/\ g_pc = "returned"
     /\ g_args.M % 2 = 0
     /\ g_args.class_balance_factor.num = 0)
        => \A a \in 1..Len(g_ret.client_data) :
               WithinOneOfGlobal(g_ret.client_data[a], g_args.y)

\* the part of C11 the code does keep: the M/2 small clients, whose class
\* sizes are computed (lines 478-479) and not drawn
C11_SmallClientsGlobalProportion ==
    (/\ g_pc = "returned"
     /\ g_args.M % 2 = 0
     /\ g_args.class_balance_factor.num = 0)
        => \A a \in 1..(g_args.M \div 2) :
               WithinOneOfGlobal(g_ret.client_data[a], g_args.y)

\* C12 as stated: for every M that is not even, generate_clients_data
\* raises the even-client-count error and has produced no shard.
C12_OddCountRaises ==
    (g_pc # "entry" /\ g_args.M % 2 # 0)
        => /\ g_pc = "raised"
           /\ g_ret.raised = "Num clients should be even"
           /\ g_ret.client_data = <<>>
           /\ g_loc.client_data = <<>>

\* C12 amended: every odd M other than 1 raises the even-client-count
\* error before any shard is produced; M = 1 returns the whole training
\* set as one shard and raises nothing.
C12_OddCountAmended ==
    /\ (g_pc # "entry" /\ g_args.M % 2 # 0 /\ g_args.M # 1)
          => /\ g_pc = "raised"
             /\ g_ret.raised = "Num clients should be even"
             /\ g_ret.client_data = <<>>
             /\ g_loc.client_data = <<>>
    /\ (g_pc # "entry" /\ g_args.M = 1)
          => /\ g_pc = "returned"
             /\ g_ret.raised = None
             /\ g_ret.client_data =
                    <<Shard([j \in 1..Len(g_args.y) |-> j], g_args.y)>>

C12_Witness ==
    /\ g_pc = "raised"
    /\ g_args.M = 3
    /\ Len(g_args.y) = 3
    /\ g_ret.raised = "Num clients should be even"
    /\ g_ret.client_data = <<>>

\* the class sizes a call asks of each small client (lines 472-479)
RequestedNegative ==
    small_client_negative_class_size(
        small_client_size(Len(g_args.y), g_args.M, g_args.client_size_factor),
        Len(g_args.y), n_zero(g_args.y), g_args.class_balance_factor)

RequestedPositive ==
    small_client_size(Len(g_args.y), g_args.M, g_args.client_size_factor)
        - RequestedNegative

\* C13: for even M, (a) if the M/2 small clients need more negative or more
\* positive examples than y holds, the call raises and no shard is produced
\* or returned; (b) every small client built, and so every one returned,
\* holds exactly the requested number of positive and of negative examples.
C13_SmallClientsFilledOrRaise ==
    (g_pc # "entry" /\ g_args.M % 2 = 0)
        => /\ (\/ RequestedNegative * (g_args.M \div 2) > n_zero(g_args.y)
               \/ RequestedPositive * (g_args.M \div 2) > n_positive(g_args.y))
                 => /\ g_pc = "raised"
                    /\ g_ret.raised # None
                    /\ g_ret.client_data = <<>>
                    /\ g_loc.client_data = <<>>
           /\ g_pc = "raised" => g_ret.client_data = <<>>
           /\ \A a \in 1..Len(g_loc.client_data) :
                 a <= g_args.M \div 2
                    => /\ n_positive(g_loc.client_data[a].y) = RequestedPositive
                       /\ n_zero(g_loc.client_data[a].y) = RequestedNegative
           /\ g_pc = "returned"
                 => /\ g_ret.client_data = g_loc.client_data
                    /\ Len(g_ret.client_data) = g_args.M

\* two small clients that use up every positive example between them
C13_Witness ==
    /\ g_pc = "returned"
    /\ g_args.M = 4
    /\ n_positive(g_args.y) = 2
    /\ RequestedPositive = 1
    /\ n_positive(g_ret.client_data[1].y) = 1
    /\ n_positive(g_ret.client_data[2].y) = 1

\* C14 as stated: a second call with the same arguments returns the shard
\* list the first call returned, whatever state the process-wide
\* generator is in when each call begins.
C14_SameArgumentsSameShards ==
    (g_call = 2 /\ g_pc = "returned")
        => g_ret.client_data = g_first.ret.client_data

\* C14 amended: a second call with the same arguments returns the shard
\* list the first call returned if dataset_seed is not None, or if the
\* process-wide generator is in the same state when each call begins; it
\* raises exactly when the first call raised, with the same error.
C14_SeededSameShards ==
    /\ (/\ g_call = 2
        /\ g_pc = "returned"
        /\ (g_args.dataset_seed # None \/ g_entry = g_first.entry))
          => /\ g_ret.client_data = g_first.ret.client_data
             /\ g_ret.N_is = g_first.ret.N_is
             /\ g_first.ret.raised = None
    /\ (g_call = 2 /\ g_pc = "raised")
          => g_ret = g_first.ret

\* a seeded second call, begun in another generator state, that repeats a
\* shuffle which moved rows
C14_Witness ==
    /\ g_call = 2
    /\ g_pc = "returned"
    /\ g_args.dataset_seed # None
    /\ g_entry # g_first.entry
    /\ g_args.M = 2
    /\ g_ret.client_data = g_first.ret.client_data
    /\ \E e \in tape : e.inds # [j \in 1..Len(e.inds) |-> j]

\* ------------------------------------------------ utils: bin_search_sigma
\* Sigma is counted in units of (ubound - lbound) / 2^MaxIters of the
\* initial bracket, so every midpoint of the first MaxIters halvings is a
\* whole number; epsilon, target_eps and tol are counted in one common unit.
RECURSIVE Pow2(_)
Pow2(n) == IF n = 0 THEN 1 ELSE 2 * Pow2(n - 1)

SigmaScale == Pow2(MaxIters)

\* fourier_accountant.get_epsilon_S (line 560) is a library call: any
\* epsilon can come back for a sigma not asked about before
EpsValues == 0..MaxEps

SigmaInputs ==
    {a \in [target_eps : EpsValues, tol : {0, 1}, lbound : {0, SigmaScale},
            ubound : {SigmaScale, 2 * SigmaScale}, max_iters : 0..MaxIters] :
        a.ubound = a.lbound + SigmaScale}

\* bin_search_sigma, line 558: cur = (ubound+lbound)/2.
midpoint(lbound, ubound) == (ubound + lbound) \div 2

\* a variant that accepts twice the tolerance
within_tol_doubled(eps, target_eps, tol) ==
    AbsDiff(eps, target_eps) <= 2 * tol

\* a variant that forgets the absolute value
within_tol_one_sided(eps, target_eps, tol) == eps - target_eps <= tol

\* bin_search_sigma, line 563: np.abs(eps - target_eps) <= tol.
within_tol(eps, target_eps, tol) == AbsDiff(eps, target_eps) <= tol

\* a variant that moves the wrong end of the bracket
next_bracket_swapped(lbound, ubound, cur, eps, target_eps) ==
    IF eps < target_eps
    THEN [lbound |-> cur, ubound |-> ubound]
    ELSE [lbound |-> lbound, ubound |-> cur]

\* a variant that always moves the upper end of the bracket
next_bracket_upper_only(lbound, ubound, cur, eps, target_eps) ==
    [lbound |-> lbound, ubound |-> cur]

\* a variant that moves both ends of the bracket to the midpoint
next_bracket_collapsed(lbound, ubound, cur, eps, target_eps) ==
    [lbound |-> cur, ubound |-> cur]

\* bin_search_sigma, lines 567-570: the bracket for the next iteration.
next_bracket(lbound, ubound, cur, eps, target_eps) ==
    IF eps < target_eps
    THEN [lbound |-> lbound, ubound |-> cur]
    ELSE [lbound |-> cur, ubound |-> ubound]

\* what bin_search_sigma hands back: a sigma, None, or an exception
SigmaReturn(kind, sigma) == [kind |-> kind, sigma |-> sigma]

NoSigmaReturn == SigmaReturn("running", 0)

SigmaInit ==
    /\ b_args \in SigmaInputs
    /\ b_pc = "loop"
    /\ b_loc = [i_iter |-> 0, lbound |-> b_args.lbound,
                ubound |-> b_args.ubound, cur |-> 0, eps |-> 0,
                assigned |-> FALSE]
    /\ b_evals = <<>>
    /\ b_ret = NoSigmaReturn

\* bin_search_sigma, lines 557-570: one iteration of the loop.
BinSearchIter ==
    /\ b_pc = "loop"
    /\ b_loc.i_iter < b_args.max_iters
    /\ LET cur == midpoint(b_loc.lbound, b_loc.ubound)
       IN  \E eps \in EpsValues :
              LET bracket == next_bracket(b_loc.lbound, b_loc.ubound, cur,
                                          eps, b_args.target_eps)
              IN  /\ b_evals' = Append(b_evals, [sigma |-> cur, eps |-> eps])
                  /\ IF within_tol(eps, b_args.target_eps, b_args.tol)
                     THEN /\ b_ret' = SigmaReturn("sigma", cur)
                          /\ b_pc' = "returned"
                          /\ b_loc' = [b_loc EXCEPT !.cur = cur, !.eps = eps,
                                                    !.assigned = TRUE]
                     ELSE /\ b_ret' = b_ret
                          /\ b_pc' = "loop"
                          /\ b_loc' = [b_loc EXCEPT
                                  !.cur = cur, !.eps = eps, !.assigned = TRUE,
                                  !.lbound = bracket.lbound,
                                  !.ubound = bracket.ubound,
                                  !.i_iter = b_loc.i_iter + 1]
    /\ UNCHANGED b_args

\* bin_search_sigma, line 572 and the end of the body: the loop is
\* exhausted, the message is formatted from cur and eps (unbound when no
\* iteration ran), and the function returns None.
BinSearchExit ==
    /\ b_pc = "loop"
    /\ b_loc.i_iter >= b_args.max_iters
    /\ IF b_loc.assigned
       THEN /\ b_ret' = SigmaReturn("None", 0)
            /\ b_pc' = "returned"
       ELSE /\ b_ret' = SigmaReturn("UnboundLocalError", 0)
            /\ b_pc' = "raised"
    /\ UNCHANGED <<b_args, b_loc, b_evals>>

SigmaNext ==
    \/ BinSearchIter /\ UNCHANGED <<driver_vars, servers_vars, part_vars, clip_vars, swap_vars>>
    \/ BinSearchExit /\ UNCHANGED <<driver_vars, servers_vars, part_vars, clip_vars, swap_vars>>

InitSigma == DriverIdle /\ ServersIdle /\ PartIdle /\ SigmaInit /\ ClipIdle /\ SwapIdle

SpecSigma == InitSigma /\ [][SigmaNext]_vars

\* the evaluations whose epsilon is within tol of the target
Converged(e) == AbsDiff(e.eps, b_args.target_eps) <= b_args.tol

\* C15: a returned sigma is the midpoint of the last evaluation made, that
\* evaluation is within tol of target_eps, and no earlier one was; the
\* search never goes on after a midpoint within tol.
C15_ReturnsFirstMidpointWithinTol ==
    /\ \A j \in 1..Len(b_evals) :
          Converged(b_evals[j])
             => /\ j = Len(b_evals)
                /\ b_ret = SigmaReturn("sigma", b_evals[j].sigma)
    /\ b_ret.kind = "sigma"
          => /\ Len(b_evals) >= 1
             /\ Len(b_evals) <= b_args.max_iters
             /\ b_ret.sigma = b_evals[Len(b_evals)].sigma
             /\ b_ret.sigma = midpoint(b_loc.lbound, b_loc.ubound)
             /\ Converged(b_evals[Len(b_evals)])

\* a sigma found at the second midpoint, after one that missed
C15_Witness ==
    /\ b_ret.kind = "sigma"
    /\ Len(b_evals) = 2
    /\ ~Converged(b_evals[1])
    /\ b_args.tol = 1
    /\ b_evals[2].eps # b_args.target_eps

\* C16 as stated: when the call is over and no midpoint was within tol,
\* it has returned None after exactly max_iters evaluations.
C16_NonConvergenceReturnsNone ==
    (/\ b_pc \in {"returned", "raised"}
     /\ \A j \in 1..Len(b_evals) : ~Converged(b_evals[j]))
        => /\ b_pc = "returned"
           /\ b_ret = SigmaReturn("None", 0)
           /\ Len(b_evals) = b_args.max_iters

\* the part of C16 the code keeps: with max_iters >= 1
C16_NonConvergenceAfterOneIteration ==
    (/\ b_pc \in {"returned", "raised"}
     /\ b_args.max_iters >= 1
     /\ \A j \in 1..Len(b_evals) : ~Converged(b_evals[j]))
        => /\ b_pc = "returned"
           /\ b_ret = SigmaReturn("None", 0)
           /\ Len(b_evals) = b_args.max_iters

\* The evaluations are those of a strictly decreasing accountant whose
\* values at the ends of the initial bracket straddle the target.  The ends
\* are never evaluated: epsilon(lbound) can be any value above the target
\* and the evaluations, epsilon(ubound) any value from 0 up that is below
\* them, which needs the target and the evaluations to be positive.
StrictlyDecreasing ==
    /\ b_args.target_eps > 0
    /\ \A j \in 1..Len(b_evals) : b_evals[j].eps > 0
    /\ \A j, k \in 1..Len(b_evals) :
          b_evals[j].sigma < b_evals[k].sigma => b_evals[j].eps > b_evals[k].eps

C18_ReturnedSigmaMeetsBudget ==
    b_ret.kind = "sigma"
        => /\ b_evals[Len(b_evals)].eps <= b_args.target_eps
           /\ \A j \in 1..Len(b_evals) :
                 b_evals[j].sigma < b_ret.sigma
                    => b_evals[j].eps > b_args.target_eps

\* C18 amended: a returned sigma has epsilon(sigma) within tol of
\* target_eps, on either side, so at most target_eps + tol; every smaller
\* sigma that was evaluated has epsilon above target_eps + tol and every
\* larger one has epsilon below target_eps - tol.
C18_ReturnedSigmaWithinTolOfBudget ==
    b_ret.kind = "sigma"
        => /\ b_evals[Len(b_evals)].sigma = b_ret.sigma
           /\ b_evals[Len(b_evals)].eps <= b_args.target_eps + b_args.tol
           /\ b_evals[Len(b_evals)].eps >= b_args.target_eps - b_args.tol
           /\ \A j \in 1..Len(b_evals) :
                 /\ b_evals[j].sigma < b_ret.sigma
                       => b_evals[j].eps > b_args.target_eps + b_args.tol
                 /\ b_evals[j].sigma > b_ret.sigma
                       => b_evals[j].eps < b_args.target_eps - b_args.tol

\* a returned sigma whose epsilon is above the target, found after a
\* smaller and a larger sigma were tried
C18_Witness ==
    /\ b_ret.kind = "sigma"
    /\ b_evals[Len(b_evals)].eps = b_args.target_eps + 1
    /\ \E j \in 1..Len(b_evals) : b_evals[j].sigma < b_ret.sigma
    /\ \E j \in 1..Len(b_evals) : b_evals[j].sigma > b_ret.sigma

\* ------------------------------------------- pvi clients: clip, then noise
\* The client classes are part of the pvi package; main only hands them
\* dp_C (client_config, line 159).  Their clipping is taken from the design
\* document, section 4.2.  An update is a vector of two coordinates over a
\* common denominator; only vectors whose L2 norm is rational are drawn, so
\* that the scaled vector can be written exactly.
DpClientClasses ==
    {"DPSGD_Client", "Param_DP_Client", "LFA_Client", "Local_PVI_Client"}

Vec(a, b, den) == [v |-> <<a, b>>, den |-> den]

Dot(a, b) == a[1] * b[1] + a[2] * b[2]

HasNorm(v) == \E n \in 0..(4 * MaxCoord) : n * n = Dot(v, v)

\* the L2 norm of the numerator v
Norm(v) == CHOOSE n \in 0..(4 * MaxCoord) : n * n = Dot(v, v)

RawVectors ==
    {v \in (-MaxCoord..MaxCoord) \X (-MaxCoord..MaxCoord) : HasNorm(v)}

\* what a round computes before clipping: one vector, or two of them (two
\* examples, two sub-batches, two pseudo-clients) that are equal, opposite
\* or at a right angle
RawUpdates ==
    {<<v>> : v \in RawVectors}
        \cup {<<v, v>> : v \in RawVectors}
        \cup {<<v, <<-v[1], -v[2]>>>> : v \in RawVectors}
        \cup {<<v, <<-v[2], v[1]>>>> : v \in RawVectors}

VecSum(raw) ==
    IF Len(raw) = 1 THEN raw[1]
    ELSE <<raw[1][1] + raw[2][1], raw[1][2] + raw[2][2]>>

\* section 4.2, "Unit of clipping": each example's gradient (DPSGD), the
\* parameter change of the pass (Param_DP), the average over sub-batches
\* (LFA), the aggregate over pseudo-clients (Local_PVI).
units_of_clipping(cls, raw) ==
    IF cls = "DPSGD_Client"
    THEN [j \in 1..Len(raw) |-> Vec(raw[j][1], raw[j][2], 1)]
    ELSE IF cls = "Param_DP_Client"
    THEN <<Vec(raw[1][1], raw[1][2], 1)>>
    ELSE IF cls = "LFA_Client"
    THEN <<Vec(VecSum(raw)[1], VecSum(raw)[2], Len(raw))>>
    ELSE <<Vec(VecSum(raw)[1], VecSum(raw)[2], 1)>>

\* a variant that cuts every coordinate down to the threshold
clip_per_coordinate(u, C) ==
    LET cut(a) == IF a > C * u.den THEN C * u.den
                  ELSE IF a < -(C * u.den) THEN -(C * u.den) ELSE a
    IN  Vec(cut(u.v[1]), cut(u.v[2]), u.den)

\* section 4.2, "Clipping policy": a vector of norm above C is scaled down
\* to norm C, any other is left as it is.
clip(u, C) ==
    IF Norm(u.v) <= C * u.den THEN u
    ELSE Vec(C * u.v[1], C * u.v[2], Norm(u.v))

ClipInit ==
    /\ k_cfg \in [cls : DpClientClasses, dp_C : 1..MaxC]
    /\ k_round = 0
    /\ k_pre = <<>>
    /\ k_post = <<>>

\* one round of the client's update, up to the point where noise is added
ClientClip ==
    /\ k_round < MaxRounds
    /\ \E raw \in RawUpdates :
          /\ k_cfg.cls = "Param_DP_Client" => Len(raw) = 1
          /\ k_cfg.cls \in {"LFA_Client", "Local_PVI_Client"}
                => HasNorm(VecSum(raw))
          /\ k_pre' = units_of_clipping(k_cfg.cls, raw)
          /\ k_post' = [j \in 1..Len(k_pre') |-> clip(k_pre'[j], k_cfg.dp_C)]
    /\ k_round' = k_round + 1
    /\ UNCHANGED k_cfg

ClipNext ==
    ClientClip /\ UNCHANGED <<driver_vars, servers_vars, part_vars, sigma_vars, swap_vars>>

InitClip == DriverIdle /\ ServersIdle /\ PartIdle /\ SigmaIdle /\ ClipInit /\ SwapIdle

SpecClip == InitClip /\ [][ClipNext]_vars

\* the squared L2 norm of u is at most C squared
NormAtMost(u, C) == Dot(u.v, u.v) <= C * C * u.den * u.den

\* a and b point the same way: parallel, not opposed, zero together
SameDirection(a, b) ==
    /\ a.v[1] * b.v[2] = a.v[2] * b.v[1]
    /\ Dot(a.v, b.v) >= 0
    /\ (a.v = <<0, 0>>) <=> (b.v = <<0, 0>>)

C20_DriverLoopBounded ==
    /\ ~(pc = "error" /\ err.at = "tick")
    /\ pc \in {"loop", "done"} => i_global = n_ticks
    /\ pc = "done" => /\ n_ticks = server.max_iterations
                      /\ should_stop(server)
    /\ ~(pc = "error" /\ err.at = "metrics")
    /\ (pc = "loop" /\ server.iterations = server.max_iterations)
          => server.state = "STOPPED"

\* the runs on which C20 does hold: all but those of a committee machine
\* asked for no global update, whose one tick finds the metric arrays empty
C20_ExceptEmptyMetricArrays ==
    ~(args.model \in {"bcm_same", "bcm_split"} /\ args.n_global_updates = 0)
        => /\ ~(pc = "error" /\ err.at = "tick")
           /\ pc \in {"loop", "done"} => i_global = n_ticks
           /\ pc = "done" => /\ n_ticks = server.max_iterations
                             /\ should_stop(server)
           /\ ~(pc = "error" /\ err.at = "metrics")

\* the bracket after any number of halvings: inside the initial one, its
\* ends in order, its width the initial width halved once per iteration
BracketHalved ==
    /\ b_args.lbound <= b_loc.lbound
    /\ b_loc.lbound <= b_loc.ubound
    /\ b_loc.ubound <= b_args.ubound
    /\ (b_loc.ubound - b_loc.lbound) * Pow2(b_loc.i_iter)
          = b_args.ubound - b_args.lbound

\* an iteration of bin_search_sigma that does not return: the loop counter
\* goes up by one
NonReturningIteration ==
    /\ b_pc = "loop"
    /\ b_pc' = "loop"
    /\ b_loc'.i_iter = b_loc.i_iter + 1

\* C21: in every non-returning iteration exactly one bound moves to the
\* midpoint, the upper one when eps < target_eps and the lower one
\* otherwise, and the other bound stays; so the bracket stays inside the
\* initial one, lbound <= ubound, and its width is the initial width
\* divided by 2 per iteration.
C21_OneBoundMovesToMidpoint ==
    /\ []BracketHalved
    /\ [][NonReturningIteration
            => LET cur == midpoint(b_loc.lbound, b_loc.ubound)
               IN  /\ b_loc'.cur = cur
                   /\ b_loc'.eps < b_args.target_eps
                         => /\ b_loc'.ubound = cur
                            /\ b_loc'.lbound = b_loc.lbound
                            /\ b_loc'.ubound # b_loc.ubound
                   /\ b_loc'.eps >= b_args.target_eps
                         => /\ b_loc'.lbound = cur
                            /\ b_loc'.ubound = b_loc.ubound
                            /\ b_loc'.lbound # b_loc.lbound]_vars

\* three halvings of a bracket that does not start at 0, both ends moved
C21_Witness ==
    /\ b_loc.i_iter = 3
    /\ b_args.lbound > 0
    /\ b_loc.lbound > b_args.lbound
    /\ b_loc.ubound < b_args.ubound
    /\ b_loc.ubound - b_loc.lbound = 1

\* epsilon is above target_eps + tol at every sigma asked about
AllAbove ==
    \A j \in 1..Len(b_evals) : b_evals[j].eps > b_args.target_eps + b_args.tol

\* epsilon is below target_eps - tol at every sigma asked about
AllBelow ==
    \A j \in 1..Len(b_evals) : b_evals[j].eps < b_args.target_eps - b_args.tol

\* the call is over without a sigma: every one of the max_iters midpoints
\* was evaluated and the loop ran out (the report of line 572 fails when
\* max_iters = 0 left cur unbound)
EndsInNonConvergence ==
    /\ b_ret.kind # "sigma"
    /\ Len(b_evals) <= b_args.max_iters
    /\ b_pc \in {"returned", "raised"}
          => /\ Len(b_evals) = b_args.max_iters
             /\ b_ret.kind = "None" <=> b_args.max_iters >= 1
             /\ b_ret.kind = "UnboundLocalError" <=> b_args.max_iters = 0

\* C22: when epsilon is above target_eps + tol everywhere in the initial
\* bracket only the lower bound ever moves and the midpoints increase
\* toward ubound; when it is below target_eps - tol everywhere only the
\* upper bound moves and the midpoints decrease toward lbound; either way
\* the search ends in non-convergence and returns no sigma.
C22_OneSidedBracketNeverConverges ==
    /\ AllAbove
          => /\ b_loc.ubound = b_args.ubound
             /\ Len(b_evals) >= 1 => b_loc.lbound = b_evals[Len(b_evals)].sigma
             /\ \A j \in 1..Len(b_evals) :
                   /\ b_evals[j].sigma < b_args.ubound
                   /\ j > 1 => b_evals[j - 1].sigma < b_evals[j].sigma
             /\ EndsInNonConvergence
    /\ AllBelow
          => /\ b_loc.lbound = b_args.lbound
             /\ Len(b_evals) >= 1 => b_loc.ubound = b_evals[Len(b_evals)].sigma
             /\ \A j \in 1..Len(b_evals) :
                   /\ b_evals[j].sigma > b_args.lbound
                   /\ j > 1 => b_evals[j - 1].sigma > b_evals[j].sigma
             /\ EndsInNonConvergence

\* a search that gave up after three midpoints, all of them with epsilon
\* below target_eps - tol
C22_Witness ==
    /\ b_pc = "returned"
    /\ b_ret.kind = "None"
    /\ Len(b_evals) = 3
    /\ AllBelow
    /\ b_args.tol = 1
    /\ b_loc.ubound = b_args.lbound + 1

\* ---------------------------------- utils: init_clients_from_existing
\* The function is handed the clients of a running server: clients that
\* set_up_clients made in an earlier dp_mode, each updated once or not at
\* all since.
OldModes == {"nondp_batches", "param"}

NewModes == {"dpsgd", "param", "nondp_epochs"}

Histories ==
    {[updated |-> FALSE, z |-> NatZero]}
        \cup {[updated |-> TRUE, z |-> z] : z \in LocalOptima}

OldClients(n, mode, h) ==
    LET made == set_up_clients([i \in 1..n |-> i], init_nat_params, mode,
                               None, None).clients
    IN  [i \in 1..n |->
            IF h[i].updated
            THEN client_update(made[i], h[i].z, nat_from_std(prior_std_params), 1)
            ELSE made[i]]

OldClientLists ==
    UNION {{OldClients(n, mode, h) : h \in [1..n -> Histories]} :
              n \in 0..MaxShards, mode \in OldModes}

\* main, lines 157-159 and 192-196: the keys of client_config and of
\* server_config that init_clients_from_existing reads or writes.
DpConfigs == [dp_mode : OldModes, dp_C : 1..MaxC, dp_sigma : {1}]

SwapInputs ==
    [clients : OldClientLists, new_dp_mode : NewModes,
     client_config : DpConfigs, server_dp_C : 1..MaxC]

\* pvi package, DPSGD_Client(data=, model=, t=, config=): a client object
\* holding what it is given, its counter at 0 and its log empty.  t_obj is
\* the factor object passed in, which the new client shares with the old.
DPSGD_Client(data, mdl, t, t_obj) ==
    [cls |-> "DPSGD_Client", data |-> data, model |-> mdl, t |-> t,
     t_init |-> t_obj, update_counter |-> 0, log |-> <<>>]

\* a variant that leaves the new client's counter and log as constructed
carried_over_nothing(new_client, old_client) == new_client

\* init_clients_from_existing, lines 100-101: log and update_counter of
\* the old client are assigned to the new one.
carried_over(new_client, old_client) ==
    [new_client EXCEPT !.log = old_client.log,
                       !.update_counter = old_client.update_counter]

NoSwapReturn == "running"

SwapInit ==
    /\ r_args \in SwapInputs
    /\ r_pc = "loop"
    /\ r_loc = [i_client |-> 1, new_clients |-> <<>>]
    /\ r_server = [clients |-> r_args.clients,
                   q |-> NatAdd(nat_from_std(prior_std_params),
                                SumFactors(r_args.clients)),
                   config |-> [dp_mode |-> r_args.client_config.dp_mode,
                               dp_C |-> r_args.server_dp_C,
                               dp_sigma |-> r_args.client_config.dp_sigma]]
    /\ r_config = r_args.client_config
    /\ r_ret = NoSwapReturn

\* init_clients_from_existing, lines 96-106: one pass of the loop over the
\* old clients.  Line 97 writes client_config['dp_mode'] before line 98
\* looks at new_dp_mode.
SwapClient ==
    /\ r_pc = "loop"
    /\ r_loc.i_client <= Len(r_args.clients)
    /\ r_config' = [r_config EXCEPT !.dp_mode = r_args.new_dp_mode]
    /\ LET old_client == r_args.clients[r_loc.i_client]
       IN  IF r_args.new_dp_mode = "dpsgd"
           THEN /\ r_loc' = [i_client |-> r_loc.i_client + 1,
                             new_clients |->
                                 Append(r_loc.new_clients,
                                        carried_over(
                                            DPSGD_Client(old_client.data,
                                                         old_client.model,
                                                         old_client.t,
                                                         old_client.t_init),
                                            old_client))]
                /\ UNCHANGED <<r_pc, r_ret>>
           ELSE /\ r_pc' = "raised"
                /\ r_ret' = "NotImplementedError"
                /\ UNCHANGED r_loc
    /\ UNCHANGED <<r_args, r_server>>

\* init_clients_from_existing, lines 108-112: after the loop the server is
\* given the new list and its config the new mode, dp_C and dp_sigma.
SwapServer ==
    /\ r_pc = "loop"
    /\ r_loc.i_client > Len(r_args.clients)
    /\ r_server' = [r_server EXCEPT
                       !.clients = r_loc.new_clients,
                       !.config = [r_server.config EXCEPT
                                      !.dp_mode = r_args.new_dp_mode,
                                      !.dp_C = r_config.dp_C,
                                      !.dp_sigma = r_config.dp_sigma]]
    /\ r_pc' = "returned"
    /\ r_ret' = "None"
    /\ UNCHANGED <<r_args, r_loc, r_config>>

SwapNext ==
    \/ SwapClient /\ UNCHANGED <<driver_vars, servers_vars, part_vars, sigma_vars, clip_vars>>
    \/ SwapServer /\ UNCHANGED <<driver_vars, servers_vars, part_vars, sigma_vars, clip_vars>>

InitSwap == DriverIdle /\ ServersIdle /\ PartIdle /\ SigmaIdle /\ ClipIdle /\ SwapInit

SpecSwap == InitSwap /\ [][SwapNext]_vars

\* C23: with new_dp_mode = 'dpsgd' the call returns with server.clients a
\* list of the same length and order as the old one, the i-th new client a
\* DPSGD_Client holding the i-th old client's data, model, factor t, log
\* and update_counter; server.q is never written, so the sum of the client
\* factors and with it q = prior + sum of factors are as before the swap.
C23_SwapKeepsClientState ==
    r_args.new_dp_mode = "dpsgd"
        => /\ r_pc # "raised"
           /\ r_server.q = NatAdd(nat_from_std(prior_std_params),
                                  SumFactors(r_args.clients))
           /\ r_pc = "returned"
                 => /\ Len(r_server.clients) = Len(r_args.clients)
                    /\ \A i \in 1..Len(r_args.clients) :
                          LET new == r_server.clients[i]
                              old == r_args.clients[i]
                          IN  /\ new.cls = "DPSGD_Client"
                              /\ new.data = old.data
                              /\ new.model = old.model
                              /\ new.t = old.t
                              /\ new.t_init = old.t_init
                              /\ new.log = old.log
                              /\ new.update_counter = old.update_counter
                    /\ SumFactors(r_server.clients) = SumFactors(r_args.clients)
                    /\ r_server.q = NatAdd(nat_from_std(prior_std_params),
                                           SumFactors(r_server.clients))

\* two clients swapped, the first updated once and the second never
C23_Witness ==
    /\ r_args.new_dp_mode = "dpsgd"
    /\ r_pc = "returned"
    /\ Len(r_server.clients) = 2
    /\ r_server.clients[1].cls = "DPSGD_Client"
    /\ r_server.clients[1].update_counter = 1
    /\ r_server.clients[1].t # NatZero
    /\ r_server.clients[2].update_counter = 0
    /\ r_args.clients[1].cls = "Param_DP_Client"

\* nothing the caller can see has changed since the call began
SwapLeftNoTrace ==
    /\ r_server.clients = r_args.clients
    /\ r_server.config.dp_mode = r_args.client_config.dp_mode
    /\ r_server.config.dp_C = r_args.server_dp_C
    /\ r_server.config.dp_sigma = r_args.client_config.dp_sigma
    /\ r_config = r_args.client_config

\* C28 as stated: with new_dp_mode other than 'dpsgd' a finished call has
\* raised NotImplementedError and server.clients, server.config and the
\* caller's client_config are as they were, for every client list,
\* the empty one included.
C28_OtherModeRaisesUnchanged ==
    r_args.new_dp_mode # "dpsgd"
        => /\ r_pc # "returned"
           /\ r_pc = "raised" => r_ret = "NotImplementedError"
           /\ SwapLeftNoTrace

\* what the code keeps of C28: with a mode other than 'dpsgd' and at least
\* one client the call raises NotImplementedError at the first client and
\* server.clients and server.config are as they were.
C28_OtherModeRaisesServerUnchanged ==
    (r_args.new_dp_mode # "dpsgd" /\ Len(r_args.clients) > 0)
        => /\ r_pc # "returned"
           /\ r_pc = "raised"
                 => /\ r_ret = "NotImplementedError"
                    /\ r_loc.i_client = 1
           /\ r_server.clients = r_args.clients
           /\ r_server.config.dp_mode = r_args.client_config.dp_mode
           /\ r_server.config.dp_C = r_args.server_dp_C

\* the client class the claim names for each dp_mode
VariantOf(dp_mode) ==
    CASE dp_mode = "lfa" -> "LFA_Client"
      [] dp_mode = "local_pvi" -> "Local_PVI_Client"
      [] dp_mode = "param" -> "Param_DP_Client"
      [] dp_mode = "dpsgd" -> "DPSGD_Client"
      [] dp_mode \in {"nondp_epochs", "nondp_batches"} -> "Client"
      [] OTHER -> None

\* C24: when set_up_clients has returned, and before the first tick, main
\* holds exactly one client per shard, in shard order, every one of the
\* variant its dp_mode selects, each with the shared model and with a
\* factor object of its own whose natural parameters are all zero.
C24_OneClientPerShard ==
    "set_up_clients" \in returned
        => /\ Len(clients) = Len(client_data)
           /\ constructed = clients \/ n_ticks > 0
           /\ \A i \in 1..Len(clients) :
                 /\ clients[i].cls = VariantOf(args.dp_mode)
                 /\ clients[i].cls # None
                 /\ clients[i].data = client_data[i]
                 /\ clients[i].model = model
                 /\ clients[i].t_init = i
                 /\ n_ticks = 0
                       => /\ clients[i].t = NatZero
                          /\ clients[i].update_counter = 0
                          /\ clients[i].log = <<>>
           /\ \A i, j \in 1..Len(clients) :
                 clients[i].t_init = clients[j].t_init => i = j

\* two local_pvi clients set up, no tick made yet
C24_Witness ==
    /\ pc = "make_server"
    /\ args.dp_mode = "local_pvi"
    /\ Len(clients) = 2
    /\ clients[2].cls = "Local_PVI_Client"
    /\ clients[2].t = NatZero

\* C25: whenever generate_clients_data returns for an even M, each of the
\* first M/2 shards holds exactly floor((1-f)*N/M) examples and each of the
\* last M/2 exactly floor((1+f)*N/M), f the client_size_factor: what is
\* left after the small clients always fills every large client.
C25_ShardSizesExact ==
    (g_pc = "returned" /\ g_args.M % 2 = 0)
        => LET f == g_args.client_size_factor
               N == Len(g_args.y)
               M == g_args.M
           IN  /\ Len(g_ret.client_data) = M
               /\ \A a \in 1..M :
                     /\ Len(g_ret.client_data[a].x)
                           = IF a <= M \div 2
                             THEN ((f.den - f.num) * N) \div (f.den * M)
                             ELSE ((f.den + f.num) * N) \div (f.den * M)
                     /\ Len(g_ret.client_data[a].y) = Len(g_ret.client_data[a].x)
                     /\ g_ret.N_is[a] = Len(g_ret.client_data[a].x)

\* five examples over two clients with f = 1/2: one example in the small
\* client, three in the large one and one left over
C25_Witness ==
    /\ g_pc = "returned"
    /\ g_args.M = 2
    /\ Len(g_args.y) = 5
    /\ g_args.client_size_factor = [num |-> 1, den |-> 2]
    /\ Len(g_ret.client_data[1].x) = 1
    /\ Len(g_ret.client_data[2].x) = 3

\* the rows of the training set that shard a holds, with repetitions
RowsOf(a) == g_ret.client_data[a].x

\* C26: in every result of generate_clients_data no training example is
\* in two shards or twice in one, each shard's x and y have equal length,
\* and every row of a shard's x sits beside its own label in the shard's y.
C26_ShardsDisjointAndPaired ==
    g_pc = "returned"
        => /\ \A a \in 1..Len(g_ret.client_data) :
                 /\ Len(g_ret.client_data[a].x) = Len(g_ret.client_data[a].y)
                 /\ \A k \in 1..Len(RowsOf(a)) :
                       /\ RowsOf(a)[k] \in 1..Len(g_args.y)
                       /\ g_ret.client_data[a].y[k] = g_args.y[RowsOf(a)[k]]
                       /\ \A kk \in 1..Len(RowsOf(a)) :
                             RowsOf(a)[k] = RowsOf(a)[kk] => k = kk
           /\ \A a, b \in 1..Len(g_ret.client_data) :
                 a # b => \A k \in 1..Len(RowsOf(a)), kk \in 1..Len(RowsOf(b)) :
                             RowsOf(a)[k] # RowsOf(b)[kk]

\* two clients over five examples of both classes, a small client whose
\* rows were shuffled out of their original order
C26_Witness ==
    /\ g_pc = "returned"
    /\ g_args.M = 2
    /\ Len(g_args.y) = 5
    /\ Len(RowsOf(1)) = 2
    /\ RowsOf(1)[1] > RowsOf(1)[2]
    /\ g_ret.client_data[1].y[1] # g_ret.client_data[1].y[2]
    /\ Len(RowsOf(2)) = 2

\* C27 as stated: a call with a dataset_seed that is over, whichever way
\* it ended, has left the process-wide generator in the state it was in
\* at entry.
C27_GeneratorStateRestored ==
    (g_args.dataset_seed # None /\ g_pc \in {"returned", "raised"})
        => np_random = g_entry

\* what the code keeps of C27: the state is put back on the normal return
\* of lines 548-551, the one reached with an even M that passes the checks.
C27_RestoredOnNormalReturn ==
    (/\ g_args.dataset_seed # None
     /\ g_pc = "returned"
     /\ g_args.M # 1)
        => np_random = g_entry

\* on the M = 1 return and on every raise the generator is left as
\* np.random.seed(dataset_seed) set it
C27_LeftSeededOtherwise ==
    (/\ g_args.dataset_seed # None
     /\ \/ g_pc = "raised"
        \/ g_pc = "returned" /\ g_args.M = 1)
        => np_random = Seeded(g_args.dataset_seed)

====
